---- MODULE Spec2Model ----
(***************************************************************************)
(* Model of cbits/stubs.c: the C shims between a foreign-function binding  *)
(* and the CUDA runtime and driver APIs.                                   *)
(*                                                                         *)
(* Every shim is modelled statement by statement.  A thread that calls a   *)
(* shim gets an activation (its parameters, in frame[t]) and automatic     *)
(* storage for the shim's local variables (locals[Slot(t)]).  The vendor   *)
(* library is a black box: a vendor call records the function called and   *)
(* the argument values it received, and answers with any result code.      *)
(*                                                                         *)
(* C's implicit conversions are modelled by value.  The machine's word     *)
(* width is scaled down: int and unsigned int have IntBits bits, size_t    *)
(* has sizeBits bits, which is IntBits on an ILP32 build and 2*IntBits on  *)
(* an LP64 build.  A sentence about 2^32 is checked as one about 2^IntBits.*)
(***************************************************************************)
EXTENDS Integers, Sequences, FiniteSets, TLC

(* Scaled width, in bits, of int and unsigned int. *)
IntBits == 3

(* Longest history of completed shim calls kept by SpecHist. *)
MaxCalls == 2

(* CUDA_VERSION from which the _v2 entry points exist (#if at line 35). *)
MinV2Version == 3020

VARIABLES
    cudaVersion,  \* CUDA_VERSION of the vendor headers of this build
    sizeBits,     \* width of size_t in this build
    pc,           \* pc[t]: the statement thread t executes next
    frame,        \* frame[t]: the activation of the shim thread t is in
    locals,       \* locals[s]: the local variables stored in slot s
    log           \* history of completed calls (kept by SpecHist only)

vars == <<cudaVersion, sizeBits, pc, frame, locals, log>>

Threads == {1, 2}

Pow2(n) == 2 ^ n
IntMin == 0 - Pow2(IntBits - 1)
IntMax == Pow2(IntBits - 1) - 1
UIntMax == Pow2(IntBits) - 1

(***************************************************************************)
(* Result codes of the vendor library.                                     *)
(***************************************************************************)
cudaErrors == {0, 11}      \* cudaSuccess, cudaErrorInvalidValue
CUresults == {0, 1}        \* CUDA_SUCCESS, CUDA_ERROR_INVALID_VALUE
ErrorStrings == {71, 72}   \* const char* values cudaGetErrorString returns

(***************************************************************************)
(* Parameter types of the shims, as declared in stubs.c.                   *)
(***************************************************************************)
ParamTypes(f) ==
    CASE f = "cudaConfigureCallSimple" ->
             <<"int", "int", "int", "int", "int", "size_t", "cudaStream_t">>
      [] f = "cudaGetErrorStringWrapper" -> <<"cudaError_t">>
      [] f = "cuTexRefSetAddress2DSimple" ->
             <<"CUtexref", "CUarray_format", "int", "CUdeviceptr",
               "int", "int", "int">>
      [] f = "cuDeviceTotalMem" -> <<"ptr", "CUdevice">>
      [] f = "cuCtxCreate" -> <<"ptr", "uint", "CUdevice">>
      [] f = "cuModuleGetGlobal" -> <<"ptr", "ptr", "CUmodule", "ptr">>
      [] f = "cuMemAlloc" -> <<"ptr", "uint">>
      [] f = "cuMemFree" -> <<"CUdeviceptr">>
      [] f = "cuMemHostGetDevicePointer" -> <<"ptr", "ptr", "uint">>
      [] f = "cuMemcpyHtoD" -> <<"CUdeviceptr", "ptr", "uint">>
      [] f = "cuMemcpyDtoH" -> <<"ptr", "CUdeviceptr", "uint">>
      [] f = "cuMemcpyDtoD" -> <<"CUdeviceptr", "CUdeviceptr", "uint">>
      [] f = "cuMemcpyHtoDAsync" -> <<"CUdeviceptr", "ptr", "uint", "CUstream">>
      [] f = "cuMemcpyDtoHAsync" -> <<"ptr", "CUdeviceptr", "uint", "CUstream">>
      [] f = "cuMemsetD8" -> <<"CUdeviceptr", "uchar", "uint">>
      [] f = "cuMemsetD16" -> <<"CUdeviceptr", "ushort", "uint">>
      [] f = "cuMemsetD32" -> <<"CUdeviceptr", "uint", "uint">>
      [] f = "cuTexRefSetAddress" -> <<"ptr", "CUtexref", "CUdeviceptr", "size_t">>

(* The shims compiled whatever CUDA_VERSION is (lines 8-33). *)
SimpleShims ==
    {"cudaConfigureCallSimple", "cudaGetErrorStringWrapper",
     "cuTexRefSetAddress2DSimple"}

(* The shims inside #if CUDA_VERSION >= 3020 (lines 35-114). *)
LegacyShims ==
    {"cuDeviceTotalMem", "cuCtxCreate", "cuModuleGetGlobal", "cuMemAlloc",
     "cuMemFree", "cuMemHostGetDevicePointer", "cuMemcpyHtoD", "cuMemcpyDtoH",
     "cuMemcpyDtoD", "cuMemcpyHtoDAsync", "cuMemcpyDtoHAsync", "cuMemsetD8",
     "cuMemsetD16", "cuMemsetD32", "cuTexRefSetAddress"}

(* The shims that exist in a build against headers of version v. *)
Compiled(v) ==
    IF v >= MinV2Version THEN SimpleShims \cup LegacyShims ELSE SimpleShims

(***************************************************************************)
(* Parameter types of the vendor functions the shims call.  The size and   *)
(* count parameters of the _v2 driver functions are size_t; the pitch of   *)
(* cuTexRefSetAddress2D is size_t from CUDA 3.2 on, unsigned int before.   *)
(***************************************************************************)
VendorParamTypes(g, v) ==
    CASE g = "cudaConfigureCall" -> <<"dim3", "dim3", "size_t", "cudaStream_t">>
      [] g = "cudaGetErrorString" -> <<"cudaError_t">>
      [] g = "cuTexRefSetAddress2D" ->
             <<"CUtexref", "desc", "CUdeviceptr",
               IF v >= MinV2Version THEN "size_t" ELSE "uint">>
      [] g = "cuDeviceTotalMem_v2" -> <<"ptr", "CUdevice">>
      [] g = "cuCtxCreate_v2" -> <<"ptr", "uint", "CUdevice">>
      [] g = "cuModuleGetGlobal_v2" -> <<"ptr", "ptr", "CUmodule", "ptr">>
      [] g = "cuMemAlloc_v2" -> <<"ptr", "size_t">>
      [] g = "cuMemFree_v2" -> <<"CUdeviceptr">>
      [] g = "cuMemHostGetDevicePointer_v2" -> <<"ptr", "ptr", "uint">>
      [] g = "cuMemcpyHtoD_v2" -> <<"CUdeviceptr", "ptr", "size_t">>
      [] g = "cuMemcpyDtoH_v2" -> <<"ptr", "CUdeviceptr", "size_t">>
      [] g = "cuMemcpyDtoD_v2" -> <<"CUdeviceptr", "CUdeviceptr", "size_t">>
      [] g = "cuMemcpyHtoDAsync_v2" -> <<"CUdeviceptr", "ptr", "size_t", "CUstream">>
      [] g = "cuMemcpyDtoHAsync_v2" -> <<"ptr", "CUdeviceptr", "size_t", "CUstream">>
      [] g = "cuMemsetD8_v2" -> <<"CUdeviceptr", "uchar", "size_t">>
      [] g = "cuMemsetD16_v2" -> <<"CUdeviceptr", "ushort", "size_t">>
      [] g = "cuMemsetD32_v2" -> <<"CUdeviceptr", "uint", "size_t">>
      [] g = "cuTexRefSetAddress_v2" -> <<"ptr", "CUtexref", "CUdeviceptr", "size_t">>

(* Type of CUDA_ARRAY_DESCRIPTOR.Width and .Height in headers of version v. *)
DescExtentType(v) == IF v >= MinV2Version THEN "size_t" ELSE "uint"

(* Convert with the 32-bit count sign-extended when it is widened. *)
Convert_signExtend(x, ty, sb) ==
    CASE ty = "uint" -> x % Pow2(IntBits)
      [] ty = "size_t" ->
             (IF x >= Pow2(IntBits - 1) /\ x < Pow2(IntBits)
              THEN x - Pow2(IntBits) ELSE x) % Pow2(sb)
      [] OTHER -> x

(* Convert with negative values clamped to zero instead of wrapping. *)
Convert_saturate(x, ty, sb) ==
    CASE ty = "uint" -> IF x < 0 THEN 0 ELSE x % Pow2(IntBits)
      [] ty = "size_t" -> IF x < 0 THEN 0 ELSE x % Pow2(sb)
      [] OTHER -> x

(***************************************************************************)
(* C's implicit conversion of the value x to the type ty, where size_t has *)
(* sb bits: conversion to an unsigned type reduces modulo 2^width, every   *)
(* other conversion the shims make is between equal types.                 *)
(***************************************************************************)
Convert(x, ty, sb) ==
    CASE ty = "uint" -> x % Pow2(IntBits)
      [] ty = "size_t" -> x % Pow2(sb)
      [] OTHER -> x

(***************************************************************************)
(* Values a caller can pass for a parameter of type ty.                    *)
(***************************************************************************)
Dom(ty, sb) ==
    CASE ty = "int" -> {IntMin, -1, 0, IntMax}
      [] ty = "uint" -> 0..UIntMax
      [] ty = "size_t" -> {0, Pow2(sb) - 1}
      [] ty = "uchar" -> {0, 1}
      [] ty = "ushort" -> {0, 1}
      [] ty = "ptr" -> {100, 101}
      [] ty = "CUdeviceptr" -> {110, 111}
      [] ty = "CUdevice" -> {120}
      [] ty = "CUmodule" -> {130}
      [] ty = "CUstream" -> {140, 141}
      [] ty = "cudaStream_t" -> {150, 151}
      [] ty = "CUtexref" -> {160}
      [] ty = "CUarray_format" -> {1, 32}   \* UNSIGNED_INT8, FLOAT
      [] ty = "cudaError_t" -> cudaErrors

RECURSIVE Tuples(_, _)
Tuples(tys, sb) ==
    IF tys = <<>> THEN {<<>>}
    ELSE {<<h>> \o r : h \in Dom(Head(tys), sb), r \in Tuples(Tail(tys), sb)}

(* Every argument tuple a caller can pass to shim f. *)
AllArgs(f, sb) == Tuples(ParamTypes(f), sb)

(* Two argument tuples per shim, different in every position. *)
LowArg(ty, sb) == CHOOSE x \in Dom(ty, sb) : \A y \in Dom(ty, sb) : x <= y
HighArg(ty, sb) == CHOOSE x \in Dom(ty, sb) : \A y \in Dom(ty, sb) : x >= y
LowArgs(f, sb) == [i \in 1..Len(ParamTypes(f)) |-> LowArg(ParamTypes(f)[i], sb)]
HighArgs(f, sb) == [i \in 1..Len(ParamTypes(f)) |-> HighArg(ParamTypes(f)[i], sb)]
SomeArgs(f, sb) == {LowArgs(f, sb), HighArgs(f, sb)}

(***************************************************************************)
(* Activations and local variables.                                        *)
(***************************************************************************)
NoFrame ==
    [shim |-> "none", args |-> <<>>, vfn |-> "none", vargs |-> <<>>,
     vres |-> -1, ncalls |-> 0, ret |-> -1]

Dim3(a, b, c, sb) ==
    [x |-> Convert(a, "uint", sb), y |-> Convert(b, "uint", sb),
     z |-> Convert(c, "uint", sb)]

NoLocals ==
    [gridDim |-> [x |-> 0, y |-> 0, z |-> 0],
     blockDim |-> [x |-> 0, y |-> 0, z |-> 0],
     desc |-> [Format |-> 0, NumChannels |-> 0, Width |-> 0, Height |-> 0]]

(* Values an uninitialized CUDA_ARRAY_DESCRIPTOR can hold (line 26): the  *)
(* all-zeroes and all-ones bit patterns stand for whatever is on the stack.*)
Uninitialized(v, sb) ==
    {[Format |-> 0, NumChannels |-> 0, Width |-> 0, Height |-> 0],
     [Format |-> UIntMax, NumChannels |-> UIntMax,
      Width |-> Convert(-1, DescExtentType(v), sb),
      Height |-> Convert(-1, DescExtentType(v), sb)]}

(* Slot with the locals declared static: one storage for all threads. *)
Slot_static(t) == 1

(* The storage that holds the local variables of thread t's activation:   *)
(* the locals are automatic, so every thread has its own.                 *)
Slot(t) == t

(* First statement of shim f. *)
Entry(f) ==
    CASE f = "cudaConfigureCallSimple" -> "l11"
      [] f = "cudaGetErrorStringWrapper" -> "l20"
      [] f = "cuTexRefSetAddress2DSimple" -> "l26"
      [] OTHER -> "call"

(* AfterVendor with the vendor call repeated after an error result. *)
AfterVendor_retry(here, r) == IF r \in {1, 11} THEN here ELSE "return"

(* A shim's statement after its vendor call answered r: it returns.       *)
AfterVendor(here, r) == "return"

(* ReturnValue with the error code 1 reported as success. *)
ReturnValue_masked(r) == IF r = 1 THEN 0 ELSE r

(* The value a shim returns when its vendor call answered r. *)
ReturnValue(r) == r

(***************************************************************************)
(* Thread t calls shim f with the arguments args.                          *)
(***************************************************************************)
Call(t, f, args) ==
    /\ pc[t] = "idle"
    /\ f \in Compiled(cudaVersion)
    /\ frame' = [frame EXCEPT ![t] = [NoFrame EXCEPT !.shim = f, !.args = args]]
    /\ pc' = [pc EXCEPT ![t] = Entry(f)]
    /\ UNCHANGED <<cudaVersion, sizeBits, locals, log>>

(* Thread t calls vendor function g with the values a; the vendor answers *)
(* with any of the results rs.                                            *)
Vendor(t, g, a, rs) ==
    \E r \in rs :
        /\ frame' = [frame EXCEPT ![t].vfn = g, ![t].vargs = a,
                                  ![t].vres = r, ![t].ncalls = @ + 1]
        /\ pc' = [pc EXCEPT ![t] = AfterVendor(pc[t], r)]
        /\ UNCHANGED <<cudaVersion, sizeBits, locals, log>>

Goto(t, label) ==
    /\ pc' = [pc EXCEPT ![t] = label]
    /\ UNCHANGED <<cudaVersion, sizeBits, frame, log>>

(***************************************************************************)
(* cudaConfigureCallSimple (lines 8-15).                                   *)
(***************************************************************************)
(* gridDim with its z dimension left zero. *)
gridDim_zeroZ(gx, gy, sb) == Dim3(gx, gy, 0, sb)

gridDim(gx, gy, sb) == Dim3(gx, gy, 1, sb)

blockDim(bx, by, bz, sb) == Dim3(bx, by, bz, sb)

cudaConfigureCallSimple_gridDim(t) ==
    /\ pc[t] = "l11"
    /\ locals' = [locals EXCEPT ![Slot(t)].gridDim =
                      gridDim(frame[t].args[1], frame[t].args[2], sizeBits)]
    /\ Goto(t, "l12")

cudaConfigureCallSimple_blockDim(t) ==
    /\ pc[t] = "l12"
    /\ locals' = [locals EXCEPT ![Slot(t)].blockDim =
                      blockDim(frame[t].args[3], frame[t].args[4],
                               frame[t].args[5], sizeBits)]
    /\ Goto(t, "l14")

cudaConfigureCallSimple_call(t) ==
    /\ pc[t] = "l14"
    /\ Vendor(t, "cudaConfigureCall",
              <<locals[Slot(t)].gridDim, locals[Slot(t)].blockDim,
                Convert(frame[t].args[6], "size_t", sizeBits),
                frame[t].args[7]>>,
              cudaErrors)

(***************************************************************************)
(* cudaGetErrorStringWrapper (lines 17-21).                                *)
(***************************************************************************)
(* The wrapper asking for the string of cudaSuccess whatever error is. *)
cudaGetErrorStringWrapper_call_const(t) ==
    /\ pc[t] = "l20"
    /\ Vendor(t, "cudaGetErrorString", <<0>>, ErrorStrings)

cudaGetErrorStringWrapper_call(t) ==
    /\ pc[t] = "l20"
    /\ Vendor(t, "cudaGetErrorString", <<frame[t].args[1]>>, ErrorStrings)

(***************************************************************************)
(* cuTexRefSetAddress2DSimple (lines 23-33).                               *)
(***************************************************************************)
cuTexRefSetAddress2DSimple_desc(t) ==
    /\ pc[t] = "l26"
    /\ \E d \in Uninitialized(cudaVersion, sizeBits) :
           locals' = [locals EXCEPT ![Slot(t)].desc = d]
    /\ Goto(t, "l27")

SetFormat(desc, fmt) == [desc EXCEPT !.Format = fmt]

SetNumChannels(desc, chn, sb) ==
    [desc EXCEPT !.NumChannels = Convert(chn, "uint", sb)]

(* SetWidth with the assignment of line 29 missing. *)
SetWidth_skipped(desc, width, v, sb) == desc

SetWidth(desc, width, v, sb) ==
    [desc EXCEPT !.Width = Convert(width, DescExtentType(v), sb)]

(* SetHeight with the assignment of line 30 missing. *)
SetHeight_skipped(desc, height, v, sb) == desc

SetHeight(desc, height, v, sb) ==
    [desc EXCEPT !.Height = Convert(height, DescExtentType(v), sb)]

cuTexRefSetAddress2DSimple_Format(t) ==
    /\ pc[t] = "l27"
    /\ locals' = [locals EXCEPT ![Slot(t)].desc = SetFormat(@, frame[t].args[2])]
    /\ Goto(t, "l28")

cuTexRefSetAddress2DSimple_NumChannels(t) ==
    /\ pc[t] = "l28"
    /\ locals' = [locals EXCEPT ![Slot(t)].desc =
                      SetNumChannels(@, frame[t].args[3], sizeBits)]
    /\ Goto(t, "l29")

cuTexRefSetAddress2DSimple_Width(t) ==
    /\ pc[t] = "l29"
    /\ locals' = [locals EXCEPT ![Slot(t)].desc =
                      SetWidth(@, frame[t].args[5], cudaVersion, sizeBits)]
    /\ Goto(t, "l30")

cuTexRefSetAddress2DSimple_Height(t) ==
    /\ pc[t] = "l30"
    /\ locals' = [locals EXCEPT ![Slot(t)].desc =
                      SetHeight(@, frame[t].args[6], cudaVersion, sizeBits)]
    /\ Goto(t, "l32")

cuTexRefSetAddress2DSimple_call(t) ==
    /\ pc[t] = "l32"
    /\ Vendor(t, "cuTexRefSetAddress2D",
              <<frame[t].args[1], locals[Slot(t)].desc, frame[t].args[4],
                Convert(frame[t].args[7],
                        VendorParamTypes("cuTexRefSetAddress2D", cudaVersion)[4],
                        sizeBits)>>,
              CUresults)

(***************************************************************************)
(* The legacy-named forwarders (lines 35-114).  Forward(t, f, g, order):   *)
(* thread t, in shim f, calls vendor function g, whose i-th argument is    *)
(* the shim's parameter number order[i] converted to g's parameter type.   *)
(***************************************************************************)
Forward(t, f, g, order) ==
    /\ pc[t] = "call"
    /\ frame[t].shim = f
    /\ Vendor(t, g,
              [i \in 1..Len(order) |->
                  Convert(frame[t].args[order[i]],
                          VendorParamTypes(g, cudaVersion)[i], sizeBits)],
              CUresults)

(* lines 39-42 *)
cuDeviceTotalMem(t) ==
    Forward(t, "cuDeviceTotalMem", "cuDeviceTotalMem_v2", <<1, 2>>)

(* lines 44-47 *)
cuCtxCreate(t) ==
    Forward(t, "cuCtxCreate", "cuCtxCreate_v2", <<1, 2, 3>>)

(* lines 49-52 *)
cuModuleGetGlobal(t) ==
    Forward(t, "cuModuleGetGlobal", "cuModuleGetGlobal_v2", <<1, 2, 3, 4>>)

(* lines 54-57 *)
cuMemAlloc(t) ==
    Forward(t, "cuMemAlloc", "cuMemAlloc_v2", <<1, 2>>)

(* lines 59-62 *)
cuMemFree(t) ==
    Forward(t, "cuMemFree", "cuMemFree_v2", <<1>>)

(* lines 64-67 *)
cuMemHostGetDevicePointer(t) ==
    Forward(t, "cuMemHostGetDevicePointer", "cuMemHostGetDevicePointer_v2", <<1, 2, 3>>)

(* lines 69-72 *)
cuMemcpyHtoD(t) ==
    Forward(t, "cuMemcpyHtoD", "cuMemcpyHtoD_v2", <<1, 2, 3>>)

(* cuMemcpyDtoH forwarding to the function of the opposite direction. *)
cuMemcpyDtoH_wrongTarget(t) ==
    Forward(t, "cuMemcpyDtoH", "cuMemcpyHtoD_v2", <<1, 2, 3>>)

(* lines 74-77 *)
cuMemcpyDtoH(t) ==
    Forward(t, "cuMemcpyDtoH", "cuMemcpyDtoH_v2", <<1, 2, 3>>)

(* lines 79-82 *)
cuMemcpyDtoD(t) ==
    Forward(t, "cuMemcpyDtoD", "cuMemcpyDtoD_v2", <<1, 2, 3>>)

(* lines 84-87 *)
cuMemcpyHtoDAsync(t) ==
    Forward(t, "cuMemcpyHtoDAsync", "cuMemcpyHtoDAsync_v2", <<1, 2, 3, 4>>)

(* lines 89-92 *)
cuMemcpyDtoHAsync(t) ==
    Forward(t, "cuMemcpyDtoHAsync", "cuMemcpyDtoHAsync_v2", <<1, 2, 3, 4>>)

(* lines 94-97 *)
cuMemsetD8(t) ==
    Forward(t, "cuMemsetD8", "cuMemsetD8_v2", <<1, 2, 3>>)

(* lines 99-102 *)
cuMemsetD16(t) ==
    Forward(t, "cuMemsetD16", "cuMemsetD16_v2", <<1, 2, 3>>)

(* lines 104-107 *)
cuMemsetD32(t) ==
    Forward(t, "cuMemsetD32", "cuMemsetD32_v2", <<1, 2, 3>>)

(* lines 109-112 *)
cuTexRefSetAddress(t) ==
    Forward(t, "cuTexRefSetAddress", "cuTexRefSetAddress_v2", <<1, 2, 3, 4>>)

(***************************************************************************)
(* The return statement of every shim hands the vendor's answer to the     *)
(* caller; the activation's local variables cease to exist.                *)
(***************************************************************************)
Return(t) ==
    /\ pc[t] = "return"
    /\ frame' = [frame EXCEPT ![t].ret = ReturnValue(frame[t].vres)]
    /\ locals' = [locals EXCEPT ![Slot(t)] = NoLocals]
    /\ pc' = [pc EXCEPT ![t] = "idle"]
    /\ UNCHANGED <<cudaVersion, sizeBits>>

(* The statements of the shims, for thread t. *)
Step(t) ==
    \/ cudaConfigureCallSimple_gridDim(t)
    \/ cudaConfigureCallSimple_blockDim(t)
    \/ cudaConfigureCallSimple_call(t)
    \/ cudaGetErrorStringWrapper_call(t)
    \/ cuTexRefSetAddress2DSimple_desc(t)
    \/ cuTexRefSetAddress2DSimple_Format(t)
    \/ cuTexRefSetAddress2DSimple_NumChannels(t)
    \/ cuTexRefSetAddress2DSimple_Width(t)
    \/ cuTexRefSetAddress2DSimple_Height(t)
    \/ cuTexRefSetAddress2DSimple_call(t)
    \/ cuDeviceTotalMem(t)
    \/ cuCtxCreate(t)
    \/ cuModuleGetGlobal(t)
    \/ cuMemAlloc(t)
    \/ cuMemFree(t)
    \/ cuMemHostGetDevicePointer(t)
    \/ cuMemcpyHtoD(t)
    \/ cuMemcpyDtoH(t)
    \/ cuMemcpyDtoD(t)
    \/ cuMemcpyHtoDAsync(t)
    \/ cuMemcpyDtoHAsync(t)
    \/ cuMemsetD8(t)
    \/ cuMemsetD16(t)
    \/ cuMemsetD32(t)
    \/ cuTexRefSetAddress(t)

Shims == SimpleShims \cup LegacyShims

Builds == {3010, 3020, 4000}

InitBuild ==
    /\ cudaVersion \in Builds
    /\ sizeBits \in {IntBits, 2 * IntBits}

Init ==
    /\ InitBuild
    /\ pc = [t \in Threads |-> "idle"]
    /\ frame = [t \in Threads |-> NoFrame]
    /\ locals = [t \in Threads |-> NoLocals]
    /\ log = <<>>

(***************************************************************************)
(* Spec: a thread calls a shim, any of them with any combination of        *)
(* argument values, and runs it to its return.  (Sequences of calls are    *)
(* SpecHist's, concurrent calls SpecConc's.)                               *)
(***************************************************************************)
CallAny(t) ==
    /\ frame[t].shim = "none"
    /\ \E f \in Shims : \E args \in AllArgs(f, sizeBits) : Call(t, f, args)

ReturnOnly(t) == Return(t) /\ UNCHANGED log

Next ==
    \/ CallAny(1)
    \/ Step(1)
    \/ ReturnOnly(1)

Spec == Init /\ [][Next]_vars

(***************************************************************************)
(* SpecConc: two threads call the shims concurrently, their statements     *)
(* interleaved in every order.                                             *)
(***************************************************************************)
CallSome(t) ==
    \E f \in Shims : \E args \in SomeArgs(f, sizeBits) : Call(t, f, args)

NextConc ==
    \E t \in Threads :
        \/ CallSome(t)
        \/ Step(t)
        \/ ReturnOnly(t)

SpecConc == Init /\ [][NextConc]_vars

(***************************************************************************)
(* SpecHist: one thread makes a sequence of calls; log records, for every  *)
(* completed call, the shim, its arguments, the vendor call it made and    *)
(* the value it returned.  Consecutive calls differ in every argument.     *)
(* The build is the one against CUDA 4.0 headers on an LP64 machine.       *)
(***************************************************************************)
InitHist ==
    /\ Init
    /\ cudaVersion = 4000
    /\ sizeBits = 2 * IntBits

CallLogged(t) ==
    /\ Len(log) < MaxCalls
    /\ \E f \in Shims :
           Call(t, f, IF Len(log) % 2 = 0 THEN LowArgs(f, sizeBits)
                                         ELSE HighArgs(f, sizeBits))

ReturnLogged(t) ==
    /\ Return(t)
    /\ log' = Append(log, [frame'[t] EXCEPT !.ncalls = frame[t].ncalls])

NextHist ==
    \/ CallLogged(1)
    \/ Step(1)
    \/ ReturnLogged(1)

SpecHist == InitHist /\ [][NextHist]_vars

(***************************************************************************)
(*                              Properties                                 *)
(***************************************************************************)

(* Thread t's current activation has made a vendor call. *)
Called(t) == frame[t].ncalls > 0

(* Thread t's last call has returned; frame[t] still describes it. *)
Done(t) == pc[t] = "idle" /\ frame[t].shim # "none"

(* Width in bits of the extents of CUDA_ARRAY_DESCRIPTOR and of the pitch. *)
ExtentBits == IF cudaVersion >= 3020 THEN sizeBits ELSE IntBits

(* The shims that return a cudaError_t or a CUresult. *)
CodeShims == Shims \ {"cudaGetErrorStringWrapper"}

(* The forwarders with a byte or element count, and the count's position. *)
CountShims ==
    {"cuMemAlloc", "cuMemcpyHtoD", "cuMemcpyDtoH", "cuMemcpyDtoD",
     "cuMemcpyHtoDAsync", "cuMemcpyDtoHAsync", "cuMemsetD8", "cuMemsetD16",
     "cuMemsetD32"}
CountPos(f) == IF f = "cuMemAlloc" THEN 2 ELSE 3

(* The vendor call a client makes that calls the vendor directly instead   *)
(* of calling shim f with arguments a: the same function the shim stands   *)
(* for, with the grouped arguments expanded into the vendor's structs.     *)
DirectCall(f, a) ==
    CASE f = "cudaConfigureCallSimple" ->
             [fn |-> "cudaConfigureCall",
              args |-> <<[x |-> a[1] % Pow2(IntBits), y |-> a[2] % Pow2(IntBits),
                          z |-> 1],
                         [x |-> a[3] % Pow2(IntBits), y |-> a[4] % Pow2(IntBits),
                          z |-> a[5] % Pow2(IntBits)],
                         a[6], a[7]>>]
      [] f = "cudaGetErrorStringWrapper" ->
             [fn |-> "cudaGetErrorString", args |-> a]
      [] f = "cuTexRefSetAddress2DSimple" ->
             [fn |-> "cuTexRefSetAddress2D",
              args |-> <<a[1],
                         [Format |-> a[2], NumChannels |-> a[3] % Pow2(IntBits),
                          Width |-> a[5] % Pow2(ExtentBits),
                          Height |-> a[6] % Pow2(ExtentBits)],
                         a[4], a[7] % Pow2(ExtentBits)>>]
      [] OTHER -> [fn |-> f \o "_v2", args |-> a]

(* C1: a legacy-named forwarder exists only when CUDA_VERSION >= 3020; its *)
(* one vendor call is to the function of the same name with the suffix     *)
(* _v2, with every argument in the same position and of the same value,    *)
(* and it returns the value that call returned.                            *)
C1_LegacyForwards ==
    \A t \in Threads :
        frame[t].shim \in LegacyShims =>
            /\ cudaVersion >= 3020
            /\ Called(t) =>
                /\ frame[t].vfn = frame[t].shim \o "_v2"
                /\ frame[t].vargs = frame[t].args
                /\ frame[t].ncalls = 1
            /\ Done(t) => Called(t) /\ frame[t].ret = frame[t].vres

C1_Witness ==
    /\ Done(1)
    /\ frame[1].shim = "cuMemcpyDtoH"
    /\ frame[1].args = <<101, 110, UIntMax>>
    /\ frame[1].vfn = "cuMemcpyDtoH_v2"
    /\ frame[1].ret = 1

(* C2, as stated: cudaConfigureCallSimple calls cudaConfigureCall with the *)
(* grid (gx, gy, 1), the block (bx, by, bz), sharedMem and stream, for all *)
(* inputs, and returns that call's result.                                 *)
C2_Original ==
    \A t \in Threads :
        frame[t].shim = "cudaConfigureCallSimple" =>
            LET a == frame[t].args IN
            /\ Called(t) =>
                /\ frame[t].vfn = "cudaConfigureCall"
                /\ frame[t].vargs =
                       <<[x |-> a[1], y |-> a[2], z |-> 1],
                         [x |-> a[3], y |-> a[4], z |-> a[5]], a[6], a[7]>>
            /\ Done(t) => Called(t) /\ frame[t].ret = frame[t].vres

(* C2, amended: the five dimensions reach cudaConfigureCall converted to   *)
(* unsigned int, that is modulo 2^IntBits, which leaves a non-negative     *)
(* dimension unchanged; the grid's z is 1 on every call; sharedMem and     *)
(* stream are unchanged and the call's result is returned.                 *)
C2_ConfigureCall ==
    \A t \in Threads :
        frame[t].shim = "cudaConfigureCallSimple" =>
            LET a == frame[t].args
                g == frame[t].vargs[1]
                b == frame[t].vargs[2]
            IN
            /\ Called(t) =>
                /\ frame[t].vfn = "cudaConfigureCall"
                /\ Len(frame[t].vargs) = 4
                /\ g.x = a[1] % Pow2(IntBits) /\ (a[1] >= 0 => g.x = a[1])
                /\ g.y = a[2] % Pow2(IntBits) /\ (a[2] >= 0 => g.y = a[2])
                /\ g.z = 1
                /\ b.x = a[3] % Pow2(IntBits) /\ (a[3] >= 0 => b.x = a[3])
                /\ b.y = a[4] % Pow2(IntBits) /\ (a[4] >= 0 => b.y = a[4])
                /\ b.z = a[5] % Pow2(IntBits) /\ (a[5] >= 0 => b.z = a[5])
                /\ frame[t].vargs[3] = a[6]
                /\ frame[t].vargs[4] = a[7]
            /\ Done(t) => Called(t) /\ frame[t].ret = frame[t].vres

C2_Witness ==
    /\ Done(1)
    /\ frame[1].shim = "cudaConfigureCallSimple"
    /\ frame[1].args = <<-1, IntMax, IntMin, 0, -1, Pow2(sizeBits) - 1, 151>>
    /\ frame[1].vargs[1] = [x |-> UIntMax, y |-> IntMax, z |-> 1]
    /\ frame[1].ret = 11

(* C3, as stated: cuTexRefSetAddress2DSimple calls cuTexRefSetAddress2D    *)
(* with tex, dptr and pitch unchanged and the descriptor (fmt, chn, width, *)
(* height), for all inputs, and returns that call's result.                *)
C3_Original ==
    \A t \in Threads :
        frame[t].shim = "cuTexRefSetAddress2DSimple" =>
            LET a == frame[t].args IN
            /\ Called(t) =>
                /\ frame[t].vfn = "cuTexRefSetAddress2D"
                /\ frame[t].vargs =
                       <<a[1],
                         [Format |-> a[2], NumChannels |-> a[3],
                          Width |-> a[5], Height |-> a[6]],
                         a[4], a[7]>>
            /\ Done(t) => Called(t) /\ frame[t].ret = frame[t].vres

(* C3, amended: the descriptor that reaches cuTexRefSetAddress2D has all   *)
(* four fields assigned from the arguments, Format = fmt and NumChannels,  *)
(* Width and Height equal to chn, width and height converted to the        *)
(* field's unsigned type (modulo 2^width of the type, which leaves a       *)
(* non-negative argument unchanged); tex and dptr are unchanged, pitch is  *)
(* converted the same way, and the call's result is returned.              *)
C3_TexRefSetAddress2D ==
    \A t \in Threads :
        frame[t].shim = "cuTexRefSetAddress2DSimple" =>
            LET a == frame[t].args
                d == frame[t].vargs[2]
            IN
            /\ Called(t) =>
                /\ frame[t].vfn = "cuTexRefSetAddress2D"
                /\ Len(frame[t].vargs) = 4
                /\ frame[t].vargs[1] = a[1]
                /\ d.Format = a[2]
                /\ d.NumChannels = a[3] % Pow2(IntBits)
                /\ d.Width = a[5] % Pow2(ExtentBits)
                /\ d.Height = a[6] % Pow2(ExtentBits)
                /\ frame[t].vargs[3] = a[4]
                /\ frame[t].vargs[4] = a[7] % Pow2(ExtentBits)
                /\ a[3] >= 0 => d.NumChannels = a[3]
                /\ a[5] >= 0 => d.Width = a[5]
                /\ a[6] >= 0 => d.Height = a[6]
                /\ a[7] >= 0 => frame[t].vargs[4] = a[7]
            /\ Done(t) => Called(t) /\ frame[t].ret = frame[t].vres

C3_Witness ==
    /\ Done(1)
    /\ frame[1].shim = "cuTexRefSetAddress2DSimple"
    /\ frame[1].args = <<160, 32, -1, 111, IntMax, -1, IntMin>>
    /\ frame[1].vargs[2].Height = Pow2(ExtentBits) - 1
    /\ frame[1].vargs[2].Width = IntMax
    /\ frame[1].ret = 1

(* C4: a shim that returns a cudaError_t or a CUresult returns the code    *)
(* its vendor call returned, success or error, after one vendor call.      *)
C4_ResultVerbatim ==
    \A t \in Threads :
        (frame[t].shim \in CodeShims /\ Done(t)) =>
            /\ frame[t].ret = frame[t].vres
            /\ frame[t].ret \in cudaErrors \cup CUresults
            /\ frame[t].ncalls = 1

C4_Witness ==
    /\ Done(1)
    /\ frame[1].shim = "cuMemAlloc"
    /\ frame[1].vres = 1
    /\ frame[1].ret = 1

(* C5: cudaGetErrorStringWrapper(error) calls cudaGetErrorString once,     *)
(* with error, calls nothing else, and returns the pointer it returned.    *)
C5_ErrorString ==
    \A t \in Threads :
        frame[t].shim = "cudaGetErrorStringWrapper" =>
            /\ Called(t) =>
                /\ frame[t].vfn = "cudaGetErrorString"
                /\ frame[t].vargs = <<frame[t].args[1]>>
                /\ frame[t].ncalls = 1
            /\ Done(t) =>
                /\ Called(t)
                /\ frame[t].ret = frame[t].vres
                /\ frame[t].ret \in ErrorStrings

C5_Witness ==
    /\ Done(1)
    /\ frame[1].shim = "cudaGetErrorStringWrapper"
    /\ frame[1].args = <<11>>
    /\ frame[1].vargs = <<11>>
    /\ frame[1].ret = 72

(* C6: an invocation of a shim never makes a second vendor call, and it    *)
(* reaches its return, and returns, with exactly one vendor call made,     *)
(* whatever the arguments and the vendor's result.                         *)
C6_ExactlyOneVendorCall ==
    \A t \in Threads :
        /\ frame[t].ncalls <= 1
        /\ (pc[t] = "return" \/ Done(t)) => frame[t].ncalls = 1
        /\ (pc[t] \notin {"idle", "return"}) => frame[t].ncalls = 0

C6_Witness ==
    /\ Done(1)
    /\ frame[1].shim = "cuMemFree"
    /\ frame[1].vres = 1
    /\ frame[1].ncalls = 1

(* C7: in every sequence of shim calls, the vendor calls issued and the    *)
(* results returned are, call by call and in the same order, those of a    *)
(* client calling the vendor directly with the expanded arguments; two     *)
(* calls of a shim with equal arguments issue equal vendor calls whatever  *)
(* came before them.                                                       *)
C7_Stateless ==
    /\ \A i \in 1..Len(log) :
           /\ log[i].ncalls = 1
           /\ log[i].vfn = DirectCall(log[i].shim, log[i].args).fn
           /\ log[i].vargs = DirectCall(log[i].shim, log[i].args).args
           /\ log[i].ret = log[i].vres
    /\ \A i, j \in 1..Len(log) :
           (log[i].shim = log[j].shim /\ log[i].args = log[j].args) =>
               (log[i].vfn = log[j].vfn /\ log[i].vargs = log[j].vargs)

C7_Witness ==
    /\ Len(log) = 2
    /\ log[1].shim = "cuTexRefSetAddress2DSimple"
    /\ log[2].shim = "cuTexRefSetAddress2DSimple"
    /\ log[1].args # log[2].args
    /\ log[1].vargs[2] # log[2].vargs[2]
    /\ log[1].ret # log[2].ret

(* C8: with two threads inside shims at once, under every interleaving,    *)
(* each thread's dim3 and descriptor hold values built from that thread's  *)
(* own arguments only, its vendor call receives those, and a thread inside *)
(* a shim can always take its next step, whatever the other thread does.   *)
C8_NoInterference ==
    \A t \in Threads :
        LET own == DirectCall(frame[t].shim, frame[t].args) IN
        /\ pc[t] \in {"l12", "l14"} => locals[t].gridDim = own.args[1]
        /\ pc[t] = "l14" => locals[t].blockDim = own.args[2]
        /\ pc[t] = "l32" => locals[t].desc = own.args[2]
        /\ Called(t) => (frame[t].vfn = own.fn /\ frame[t].vargs = own.args)
        /\ pc[t] # "idle" => ENABLED (Step(t) \/ ReturnOnly(t))

C8_Witness ==
    /\ frame[1].shim = "cuTexRefSetAddress2DSimple"
    /\ frame[2].shim = "cuTexRefSetAddress2DSimple"
    /\ frame[1].args # frame[2].args
    /\ pc[1] = "l30"
    /\ pc[2] = "return"
    /\ frame[2].vargs[2].Width # locals[1].desc.Width

(* C9: the count of a legacy forwarder is declared unsigned int, and every *)
(* count c in 0 .. 2^IntBits - 1 reaches the _v2 function as c itself, so  *)
(* the _v2 function never receives a count of 2^IntBits or more.           *)
C9_CountZeroExtended ==
    /\ \A f \in CountShims : ParamTypes(f)[CountPos(f)] = "uint"
    /\ \A t \in Threads :
           (frame[t].shim \in CountShims /\ Called(t)) =>
               LET c == frame[t].args[CountPos(frame[t].shim)]
                   received == frame[t].vargs[CountPos(frame[t].shim)]
               IN /\ c \in 0..(Pow2(IntBits) - 1)
                  /\ received = c
                  /\ received < Pow2(IntBits)

C9_Witness ==
    /\ Done(1)
    /\ frame[1].shim = "cuMemsetD32"
    /\ sizeBits > IntBits
    /\ frame[1].args[3] = Pow2(IntBits) - 1
    /\ frame[1].vargs[3] = Pow2(IntBits) - 1

(* C10: the int dimensions are not validated.  Each of gx, gy, bx, by, bz  *)
(* reaches cudaConfigureCall modulo 2^IntBits, unchanged when it is not    *)
(* negative; chn, width, height and pitch reach cuTexRefSetAddress2D       *)
(* modulo 2^width of their unsigned field or parameter; and with a         *)
(* negative or zero dimension too the shim makes its vendor call and       *)
(* returns the vendor's result, never one of its own.                      *)
C10_DimensionsWrap ==
    \A t \in Threads :
        LET a == frame[t].args
            va == frame[t].vargs
            Wrapped(v, bits) ==
                IF v < 0 THEN v + Pow2(bits) ELSE v
        IN
        /\ (frame[t].shim = "cudaConfigureCallSimple" /\ Called(t)) =>
               /\ va[1].x = Wrapped(a[1], IntBits)
               /\ va[1].y = Wrapped(a[2], IntBits)
               /\ va[2].x = Wrapped(a[3], IntBits)
               /\ va[2].y = Wrapped(a[4], IntBits)
               /\ va[2].z = Wrapped(a[5], IntBits)
        /\ (frame[t].shim = "cuTexRefSetAddress2DSimple" /\ Called(t)) =>
               /\ va[2].NumChannels = Wrapped(a[3], IntBits)
               /\ va[2].Width = Wrapped(a[5], ExtentBits)
               /\ va[2].Height = Wrapped(a[6], ExtentBits)
               /\ va[4] = Wrapped(a[7], ExtentBits)
        /\ (frame[t].shim \in {"cudaConfigureCallSimple",
                               "cuTexRefSetAddress2DSimple"}
            /\ (pc[t] = "return" \/ Done(t))) =>
               /\ frame[t].ncalls = 1
               /\ Done(t) => frame[t].ret = frame[t].vres

C10_Witness ==
    /\ Done(1)
    /\ frame[1].shim = "cudaConfigureCallSimple"
    /\ frame[1].args[1] = IntMin
    /\ frame[1].args[3] = 0
    /\ frame[1].args[5] = -1
    /\ frame[1].vargs[1].x = Pow2(IntBits - 1)
    /\ frame[1].vargs[2].x = 0
    /\ frame[1].vargs[2].z = Pow2(IntBits) - 1
    /\ frame[1].ret = 0

====
